---- MODULE Spec2Model ----
(***************************************************************************)
(* Model of the module builder of parity-wasm (src/builder/module.rs):     *)
(* the ModuleScaffold, its decomposition from and reassembly into an       *)
(* elements::Module, the type-index resolver and the ModuleBuilder          *)
(* mutation operations.                                                     *)
(***************************************************************************)
EXTENDS Integers, Sequences, FiniteSets, TLC

\* module   the builder's ModuleScaffold (ModuleBuilder.module)
\* pc       "accumulating" until build consumes the builder, then "finalized"
\* built    the elements::Module build returned (its section list)
\* last     the builder method applied last: its name, argument and result
\* nsigs    signatures added by push_signature, push_signatures and
\*          with_signatures since the scaffold was created
\* seeded   whether the scaffold came from a module (from_module, with_module)
\* prevSig  the result of the call before `last` when that call was a
\*          push_signature with an Inline signature
\* nops     operations applied since the scaffold was created: 0, 1, or 2
\*          for two or more
\* seed     of the module the scaffold was decomposed from, the number of
\*          entries in its Type sections and in its Function sections and
\*          whether it has at most one of each, remembered until a second
\*          operation is applied to the scaffold
\* inlineOnly  whether every signature resolved since the scaffold was
\*          created was Inline
VARIABLES module, pc, built, last, nsigs, seeded, prevSig, nops, seed, inlineOnly

vars == <<module, pc, built, last, nsigs, seeded, prevSig, nops, seed, inlineOnly>>

(***************************************************************************)
(* Bounds of the model.                                                    *)
(***************************************************************************)
\* Largest total number of entries (over the five slots) an append may reach.
MaxSize == 4
\* Largest number of sections of a module given to from_module.
MaxSeedSections == 3
\* Largest number of items of a list argument (SignatureBindings, sections).
MaxBatch == 2

(***************************************************************************)
(* Values.                                                                 *)
(***************************************************************************)
\* `len() as u32`: a slot never holds 2^32 entries within the bounds of the
\* model, so the cast keeps the length.
U32(n) == n

FuncTypes == {"ft1", "ft2"}
Bodies == {"body1", "body2"}
ImportEntries == {"imp1", "imp2"}
\* Type indices a caller passes in Signature::TypeReference: one that can be
\* in range and one that never is.
TypeRefs == {0, 1000000}

Inline(func_type) == [tag |-> "Inline", func_type |-> func_type]
TypeReference(type_ref) == [tag |-> "TypeReference", type_ref |-> type_ref]
Signatures == {Inline(ft) : ft \in FuncTypes} \cup {TypeReference(i) : i \in TypeRefs}
FunctionDefinitions == [signature : Signatures, code : Bodies]

\* elements::Type::Function(func_type) and elements::Func::new(type_ref)
TypeFunction(func_type) == [Function |-> func_type]
Func(type_ref) == [type_ref |-> type_ref]

\* elements::Section: a kind and the ordered entries it holds.
Section(kind, entries) == [kind |-> kind, entries |-> entries]
TrackedKinds == {"Type", "Function", "Import", "Code"}
UntrackedSections == {Section("Custom", <<"c1">>), Section("Export", <<"e1">>)}
FunctionsSections == {Section("Function", <<Func(0)>>)}
\* Raw sections a caller may hand to with_section / with_sections.
RawSections == UntrackedSections
\* Sections of the modules handed to with_module / from_module.
SeedSections ==
    UntrackedSections \cup
    { Section("Type", <<TypeFunction("ft2"), TypeFunction("ft1")>>),
      Section("Type", <<TypeFunction("ft1")>>),
      Section("Function", <<Func(1), Func(0)>>),
      Section("Function", <<Func(0)>>),
      Section("Import", <<"imp2", "imp1">>),
      Section("Code", <<"body2", "body1">>) }

SeqsUpTo(S, n) == UNION {[1..k -> S] : k \in 0..n}
SeedModules == SeqsUpTo(SeedSections, MaxSeedSections)
\* Modules handed to with_module on a builder already in use.
ReseedModules ==
    { <<>>,
      <<Section("Type", <<TypeFunction("ft2")>>)>>,
      <<Section("Function", <<Func(0)>>), Section("Code", <<"body2">>)>>,
      <<Section("Custom", <<"c1">>), Section("Import", <<"imp2">>),
        Section("Export", <<"e1">>)>> }
SignatureBindings == SeqsUpTo(Signatures, MaxBatch)
SectionLists == SeqsUpTo(RawSections, MaxBatch)

(***************************************************************************)
(* ModuleScaffold and its conversions.                                     *)
(***************************************************************************)
\* #[derive(Default)] struct ModuleScaffold
DefaultScaffold ==
    [functions |-> <<>>, types |-> <<>>, import |-> <<>>, code |-> <<>>, other |-> <<>>]

\* Option<T>: None is <<>>, Some(x) is <<x>>; unwrap_or_default of a section
\* is its entries, or no entries.
None == <<>>
Some(x) == <<x>>
unwrap_or_default(opt) == IF opt = None THEN <<>> ELSE opt[1].entries

\* Vec::pop: the last element is removed and returned.
Last(s) == s[Len(s)]
Front(s) == SubSeq(s, 1, Len(s) - 1)

\* The classification loop run from the start of the section list.
RECURSIVE classify_from_start(_)
classify_from_start(st) ==
    IF st.sections = <<>> THEN st
    ELSE LET section == Head(st.sections)
             rest == [st EXCEPT !.sections = Tail(st.sections)]
         IN  classify_from_start(
               CASE section.kind = "Type" -> [rest EXCEPT !.types = Some(section)]
                 [] section.kind = "Function" -> [rest EXCEPT !.funcs = Some(section)]
                 [] section.kind = "Import" -> [rest EXCEPT !.import = Some(section)]
                 [] section.kind = "Code" -> [rest EXCEPT !.code = Some(section)]
                 [] OTHER -> rest)

\* The `while let Some(section) = sections.pop()` loop of From<Module>.
RECURSIVE classify(_)
classify(st) ==
    IF st.sections = <<>> THEN st
    ELSE LET section == Last(st.sections)
             rest == [st EXCEPT !.sections = Front(st.sections)]
         IN  classify(
               CASE section.kind = "Type" -> [rest EXCEPT !.types = Some(section)]
                 [] section.kind = "Function" -> [rest EXCEPT !.funcs = Some(section)]
                 [] section.kind = "Import" -> [rest EXCEPT !.import = Some(section)]
                 [] section.kind = "Code" -> [rest EXCEPT !.code = Some(section)]
                 [] OTHER -> rest)

\* scaffold_from with the Import arm of the match forgotten.
scaffold_from_no_import(m) ==
    LET st == classify([funcs |-> None, types |-> None, import |-> None,
                        code |-> None, sections |-> m])
    IN  [functions |-> unwrap_or_default(st.funcs),
         types |-> unwrap_or_default(st.types),
         import |-> <<>>,
         code |-> unwrap_or_default(st.code),
         other |-> st.sections]

\* scaffold_from that starts the functions slot empty.
scaffold_from_no_functions(m) ==
    LET st == classify([funcs |-> None, types |-> None, import |-> None,
                        code |-> None, sections |-> m])
    IN  [functions |-> <<>>,
         types |-> unwrap_or_default(st.types),
         import |-> unwrap_or_default(st.import),
         code |-> unwrap_or_default(st.code),
         other |-> st.sections]

\* impl From<elements::Module> for ModuleScaffold
scaffold_from(m) ==
    LET st == classify([funcs |-> None, types |-> None, import |-> None,
                        code |-> None, sections |-> m])
    IN  [functions |-> unwrap_or_default(st.funcs),
         types |-> unwrap_or_default(st.types),
         import |-> unwrap_or_default(st.import),
         code |-> unwrap_or_default(st.code),
         other |-> st.sections]

\* module_from with the Function section pushed before the Type section.
module_from_functions_first(s) ==
    LET s1 == IF Len(s.functions) > 0
              THEN <<Section("Function", s.functions)>> ELSE <<>>
        s2 == IF Len(s.types) > 0 THEN Append(s1, Section("Type", s.types)) ELSE s1
        s3 == IF Len(s.import) > 0
              THEN Append(s2, Section("Import", s.import)) ELSE s2
    IN  s3 \o s.other

\* module_from without the `len() > 0` tests.
module_from_always_emits(s) ==
    <<Section("Type", s.types), Section("Function", s.functions),
      Section("Import", s.import)>> \o s.other

\* impl From<ModuleScaffold> for elements::Module
module_from(s) ==
    LET s1 == IF Len(s.types) > 0 THEN <<Section("Type", s.types)>> ELSE <<>>
        s2 == IF Len(s.functions) > 0
              THEN Append(s1, Section("Function", s.functions)) ELSE s1
        s3 == IF Len(s.import) > 0
              THEN Append(s2, Section("Import", s.import)) ELSE s2
    IN  s3 \o s.other

(***************************************************************************)
(* ModuleBuilder operations, as functions of the scaffold.  An operation   *)
(* that returns a value yields [module, ret].                               *)
(***************************************************************************)
\* with_module that keeps the sections accumulated in `other`.
with_module_merging(s, m) == [scaffold_from(m) EXCEPT !.other = s.other \o @]

with_module(s, m) == scaffold_from(m)

with_sections(s, sections) == [s EXCEPT !.other = @ \o sections]

with_section(s, section) == [s EXCEPT !.other = Append(@, section)]

\* resolve_type_ref that reuses an equal type already in the types slot.
resolve_type_ref_dedup(s, signature) ==
    IF signature.tag = "Inline"
    THEN LET same == {i \in 1..Len(s.types) :
                         s.types[i] = TypeFunction(signature.func_type)}
         IN  IF same # {}
             THEN [module |-> s, ret |-> (CHOOSE i \in same : TRUE) - 1]
             ELSE LET s1 == [s EXCEPT !.types =
                                 Append(@, TypeFunction(signature.func_type))]
                  IN  [module |-> s1, ret |-> U32(Len(s1.types)) - 1]
    ELSE [module |-> s, ret |-> signature.type_ref]

\* resolve_type_ref that registers a type for a reference out of range.
resolve_type_ref_checked(s, signature) ==
    IF signature.tag = "Inline"
    THEN LET s1 == [s EXCEPT !.types = Append(@, TypeFunction(signature.func_type))]
         IN  [module |-> s1, ret |-> U32(Len(s1.types)) - 1]
    ELSE IF signature.type_ref < Len(s.types)
         THEN [module |-> s, ret |-> signature.type_ref]
         ELSE [module |-> s, ret |-> Len(s.types) - 1]

resolve_type_ref(s, signature) ==
    IF signature.tag = "Inline"
    THEN LET s1 == [s EXCEPT !.types = Append(@, TypeFunction(signature.func_type))]
         IN  [module |-> s1, ret |-> U32(Len(s1.types)) - 1]
    ELSE [module |-> s, ret |-> signature.type_ref]

\* push_function that takes the body index from the functions slot.
push_function_one_index(s, func) ==
    LET r == resolve_type_ref(s, func.signature)
        s1 == [r.module EXCEPT !.functions = Append(@, Func(r.ret))]
        signature_index == U32(Len(s1.functions)) - 1
        s2 == [s1 EXCEPT !.code = Append(@, func.code)]
    IN  [module |-> s2, ret |-> [signature |-> signature_index, body |-> signature_index]]

push_function(s, func) ==
    LET r == resolve_type_ref(s, func.signature)
        s1 == [r.module EXCEPT !.functions = Append(@, Func(r.ret))]
        signature_index == U32(Len(s1.functions)) - 1
        s2 == [s1 EXCEPT !.code = Append(@, func.code)]
        body_index == U32(Len(s2.code)) - 1
    IN  [module |-> s2, ret |-> [signature |-> signature_index, body |-> body_index]]

\* push_signature that returns the resolved type index.
push_signature_type_index(s, signature) ==
    LET r == resolve_type_ref(s, signature)
        s1 == [r.module EXCEPT !.functions = Append(@, Func(r.ret))]
    IN  [module |-> s1, ret |-> r.ret]

\* push_signature that inserts the function entry in front.
push_signature_front(s, signature) ==
    LET r == resolve_type_ref(s, signature)
        s1 == [r.module EXCEPT !.functions = <<Func(r.ret)>> \o @]
    IN  [module |-> s1, ret |-> U32(Len(s1.functions)) - 1]

push_signature(s, signature) ==
    LET r == resolve_type_ref(s, signature)
        s1 == [r.module EXCEPT !.functions = Append(@, Func(r.ret))]
    IN  [module |-> s1, ret |-> U32(Len(s1.functions)) - 1]

\* The map of push_signatures with the type index taken without `- 1`.
RECURSIVE raw_functions_off_by_one(_, _, _)
raw_functions_off_by_one(s, signatures, acc) ==
    IF signatures = <<>> THEN [module |-> s, ret |-> acc]
    ELSE LET binding == Head(signatures)
         IN  IF binding.tag = "Inline"
             THEN LET s1 == [s EXCEPT !.types =
                                 Append(@, TypeFunction(binding.func_type))]
                  IN  raw_functions_off_by_one(s1, Tail(signatures),
                                               Append(acc, U32(Len(s1.types))))
             ELSE raw_functions_off_by_one(s, Tail(signatures),
                                           Append(acc, binding.type_ref))

\* The `signatures.into_iter().map(..).collect()` of push_signatures.
RECURSIVE raw_functions(_, _, _)
raw_functions(s, signatures, acc) ==
    IF signatures = <<>> THEN [module |-> s, ret |-> acc]
    ELSE LET binding == Head(signatures)
         IN  IF binding.tag = "Inline"
             THEN LET s1 == [s EXCEPT !.types =
                                 Append(@, TypeFunction(binding.func_type))]
                  IN  raw_functions(s1, Tail(signatures),
                                    Append(acc, U32(Len(s1.types)) - 1))
             ELSE raw_functions(s, Tail(signatures), Append(acc, binding.type_ref))

\* The loop of push_signatures with the index taken without the `- 1`.
RECURSIVE push_raw_off_by_one(_, _, _)
push_raw_off_by_one(s, raw, result) ==
    IF raw = <<>> THEN [module |-> s, ret |-> result]
    ELSE LET s1 == [s EXCEPT !.functions = Append(@, Func(Head(raw)))]
         IN  push_raw_off_by_one(s1, Tail(raw), Append(result, U32(Len(s1.functions))))

\* The `for function in raw_functions` loop of push_signatures.
RECURSIVE push_raw(_, _, _)
push_raw(s, raw, result) ==
    IF raw = <<>> THEN [module |-> s, ret |-> result]
    ELSE LET s1 == [s EXCEPT !.functions = Append(@, Func(Head(raw)))]
         IN  push_raw(s1, Tail(raw), Append(result, U32(Len(s1.functions)) - 1))

\* push_signatures that registers the types and forgets the functions.
push_signatures_types_only(s, signatures) ==
    LET r == raw_functions(s, signatures, <<>>)
    IN  [module |-> r.module, ret |-> <<>>]

push_signatures(s, signatures) ==
    LET r == raw_functions(s, signatures, <<>>)
    IN  push_raw(r.module, r.ret, <<>>)

\* with_signatures that binds the first signature only.
with_signatures_first_only(s, bindings) ==
    IF bindings = <<>> THEN s ELSE push_signatures(s, <<Head(bindings)>>).module

with_signatures(s, bindings) == push_signatures(s, bindings).module

\* with_import that inserts the entry in front.
with_import_front(s, entry) == [s EXCEPT !.import = <<entry>> \o @]

with_import(s, entry) == [s EXCEPT !.import = Append(@, entry)]

\* build: self.module.into(), handed to the Identity callback.
build(s) == module_from(s)

\* impl Invoke<FunctionsSection / SignatureBindings / ImportEntry>
invoke_functions_section(s, section) == with_section(s, section)
invoke_signature_bindings(s, bindings) == with_signatures(s, bindings)
invoke_import_entry(s, entry) == with_import(s, entry)

(***************************************************************************)
(* The builder as a state machine.                                         *)
(***************************************************************************)
Size(s) == Len(s.functions) + Len(s.types) + Len(s.import) + Len(s.code) + Len(s.other)
Fits(s) == Size(s) <= MaxSize

NoRet == <<>>
Op(op, arg, ret) == [op |-> op, arg |-> arg, ret |-> ret]

\* The entries a module holds in its sections of one kind, and how many
\* sections of that kind it has.
RECURSIVE EntryCount(_, _)
EntryCount(m, kind) ==
    IF m = <<>> THEN 0
    ELSE (IF Head(m).kind = kind THEN Len(Head(m).entries) ELSE 0)
         + EntryCount(Tail(m), kind)
SectionCount(m, kind) == Cardinality({i \in 1..Len(m) : m[i].kind = kind})
SeedSummary(m) ==
    [types |-> EntryCount(m, "Type"),
     functions |-> EntryCount(m, "Function"),
     single |-> SectionCount(m, "Type") <= 1 /\ SectionCount(m, "Function") <= 1]

\* module(): ModuleBuilder::new() = with_callback(Identity)
InitModule ==
    /\ module = DefaultScaffold
    /\ pc = "accumulating"
    /\ built = <<>>
    /\ last = Op("module", <<>>, NoRet)
    /\ nsigs = 0
    /\ seeded = FALSE
    /\ prevSig = NoRet
    /\ nops = 0
    /\ seed = None
    /\ inlineOnly = TRUE

\* from_module(m): ModuleBuilder::new().with_module(m)
InitFromModule ==
    \E m \in SeedModules :
        /\ module = with_module(DefaultScaffold, m)
        /\ pc = "accumulating"
        /\ built = <<>>
        /\ last = Op("from_module", m, NoRet)
        /\ nsigs = 0
        /\ seeded = TRUE
        /\ prevSig = NoRet
        /\ nops = 0
        /\ seed = Some(SeedSummary(m))
        /\ inlineOnly = TRUE

Init == InitModule \/ InitFromModule

\* The signatures a builder method call resolves, in order.
SignaturesOf(op) ==
    CASE op.op \in {"push_signatures", "with_signatures"} -> op.arg
      [] op.op = "push_signature" -> <<op.arg>>
      [] op.op = "push_function" -> <<op.arg.signature>>
      [] OTHER -> <<>>

\* What an operation leaves behind besides the scaffold: the record of the
\* builder method applied (an Invoke impl applies the method it delegates
\* to), the number of signatures added since the scaffold was created,
\* whether the scaffold came from with_module, and what is remembered of the
\* scaffold's origin (reseeds tells a with_module call).
Record(op, added, reseeds) ==
    /\ last' = op
    /\ nsigs' = IF reseeds THEN 0 ELSE nsigs + added
    /\ seeded' = (seeded \/ reseeds)
    /\ prevSig' = IF last.op = "push_signature" /\ last.arg.tag = "Inline"
                  THEN last.ret ELSE NoRet
    /\ nops' = IF reseeds THEN 0 ELSE IF nops = 0 THEN 1 ELSE 2
    /\ seed' = IF reseeds THEN Some(SeedSummary(op.arg)) ELSE IF nops = 0 THEN seed ELSE None
    /\ inlineOnly' =
          IF reseeds THEN TRUE
          ELSE inlineOnly /\ \A k \in 1..Len(SignaturesOf(op)) :
                                SignaturesOf(op)[k].tag = "Inline"
    /\ UNCHANGED <<pc, built>>

\* Room left under MaxSize: a list longer than this cannot fit.
Room == MaxSize - Size(module)

WithModule ==
    \E m \in ReseedModules :
        /\ pc = "accumulating"
        /\ module' = with_module(module, m)
        /\ Record(Op("with_module", m, NoRet), 0, TRUE)

WithSections ==
    \E sections \in SectionLists :
        /\ pc = "accumulating"
        /\ Len(sections) <= Room
        /\ module' = with_sections(module, sections)
        /\ Fits(module')
        /\ Record(Op("with_sections", sections, NoRet), 0, FALSE)

WithSection ==
    \E section \in RawSections :
        /\ pc = "accumulating"
        /\ module' = with_section(module, section)
        /\ Fits(module')
        /\ Record(Op("with_section", section, NoRet), 0, FALSE)

WithSignatures ==
    \E bindings \in SignatureBindings :
        /\ pc = "accumulating"
        /\ Len(bindings) <= Room
        /\ module' = with_signatures(module, bindings)
        /\ Fits(module')
        /\ Record(Op("with_signatures", bindings, NoRet), Len(bindings), FALSE)

PushFunction ==
    \E func \in FunctionDefinitions :
        /\ pc = "accumulating"
        /\ LET r == push_function(module, func)
           IN  /\ module' = r.module
               /\ Fits(module')
               /\ Record(Op("push_function", func, <<r.ret>>), 0, FALSE)

PushSignature ==
    \E signature \in Signatures :
        /\ pc = "accumulating"
        /\ LET r == push_signature(module, signature)
           IN  /\ module' = r.module
               /\ Fits(module')
               /\ Record(Op("push_signature", signature, <<r.ret>>), 1, FALSE)

PushSignatures ==
    \E signatures \in SignatureBindings :
        /\ pc = "accumulating"
        /\ Len(signatures) <= Room
        /\ LET r == push_signatures(module, signatures)
           IN  /\ module' = r.module
               /\ Fits(module')
               /\ Record(Op("push_signatures", signatures, r.ret),
                         Len(signatures), FALSE)

WithImport ==
    \E entry \in ImportEntries :
        /\ pc = "accumulating"
        /\ module' = with_import(module, entry)
        /\ Fits(module')
        /\ Record(Op("with_import", entry, NoRet), 0, FALSE)

InvokeFunctionsSection ==
    \E section \in FunctionsSections :
        /\ pc = "accumulating"
        /\ module' = invoke_functions_section(module, section)
        /\ Fits(module')
        /\ Record(Op("with_section", section, NoRet), 0, FALSE)

InvokeSignatureBindings ==
    \E bindings \in SignatureBindings :
        /\ pc = "accumulating"
        /\ Len(bindings) <= Room
        /\ module' = invoke_signature_bindings(module, bindings)
        /\ Fits(module')
        /\ Record(Op("with_signatures", bindings, NoRet),
                  Len(bindings), FALSE)

InvokeImportEntry ==
    \E entry \in ImportEntries :
        /\ pc = "accumulating"
        /\ module' = invoke_import_entry(module, entry)
        /\ Fits(module')
        /\ Record(Op("with_import", entry, NoRet), 0, FALSE)

\* build consumes the builder: no operation follows it.
Build ==
    /\ pc = "accumulating"
    /\ pc' = "finalized"
    /\ built' = build(module)
    /\ UNCHANGED <<module, last, nsigs, seeded, prevSig, nops, seed, inlineOnly>>

Next ==
    \/ WithModule
    \/ WithSections
    \/ WithSection
    \/ WithSignatures
    \/ PushFunction
    \/ PushSignature
    \/ PushSignatures
    \/ WithImport
    \/ InvokeFunctionsSection
    \/ InvokeSignatureBindings
    \/ InvokeImportEntry
    \/ Build

Spec == Init /\ [][Next]_vars

(***************************************************************************)
(* Helpers of the properties.                                              *)
(***************************************************************************)
IsUntracked(section) == section.kind \notin TrackedKinds
Untracked(sections) == SelectSeq(sections, IsUntracked)
\* The sections of one kind, in order.
OfKind(sections, kind) ==
    LET Is(section) == section.kind = kind IN SelectSeq(sections, Is)
\* The builder came from decomposing the module last.arg and nothing else
\* was applied since.
JustSeeded == last.op \in {"from_module", "with_module"}
\* The step is a call of builder method `op` (build leaves pc "finalized").
Called(op) == pc' = "accumulating" /\ last'.op = op

(***************************************************************************)
(* C1.  Decomposing a module keeps every section that is not a Type,       *)
(* Function, Import or Code section in `other`, in the module's order, so  *)
(* that building right after decomposing a module returns all its          *)
(* untracked sections in their original relative order.                    *)
(* The code does not: the classification loop pops every section off the   *)
(* list, so `other` is always empty after decomposition.                   *)
(***************************************************************************)
C1_UntrackedSectionsKept ==
    JustSeeded =>
        /\ module.other = Untracked(last.arg)
        /\ pc = "finalized" => Untracked(built) = Untracked(last.arg)

(***************************************************************************)
(* C2.  Every function body held in the code slot at build time appears,   *)
(* in slot order, in a Code section of the module build returns.           *)
(* The code does not: reassembly emits no Code section.                    *)
(***************************************************************************)
C2_CodeSlotEmitted ==
    (pc = "finalized" /\ module.code # <<>>) =>
        \E i \in 1..Len(built) :
            built[i].kind = "Code" /\ built[i].entries = module.code

(***************************************************************************)
(* C3.  Round trip of the tracked slots: when a module holding at most one *)
(* Type, one Function and one Import section, each non-empty, is           *)
(* decomposed and built with no operation in between, the built module's   *)
(* Type, Function and Import sections are those of the module: the same    *)
(* entries in the same order.                                              *)
(***************************************************************************)
RoundTripKinds == {"Type", "Function", "Import"}
AtMostOneEach(m) ==
    \A kind \in RoundTripKinds :
        /\ Len(OfKind(m, kind)) <= 1
        /\ \A i \in 1..Len(m) : m[i].kind = kind => m[i].entries # <<>>
C3_TrackedRoundTrip ==
    (pc = "finalized" /\ JustSeeded /\ AtMostOneEach(last.arg)) =>
        \A kind \in RoundTripKinds : OfKind(built, kind) = OfKind(last.arg, kind)
\* A module with one section of each of the three kinds, in an order other
\* than the one build emits, went through from_module and build.
C3_Witness ==
    /\ pc = "finalized"
    /\ last.op = "from_module"
    /\ AtMostOneEach(last.arg)
    /\ Len(last.arg) = 3
    /\ last.arg[1].kind = "Import"
    /\ \A kind \in RoundTripKinds : Len(OfKind(last.arg, kind)) = 1

(***************************************************************************)
(* C4.  As claimed: a push_signature call with an Inline signature returns *)
(* the types-slot length just before the call.                              *)
(* The code returns the function index, which differs from the types-slot  *)
(* length as soon as a TypeReference signature or a seed module has made    *)
(* the two slots differ in length.                                          *)
(***************************************************************************)
InlinePushSignature == Called("push_signature") /\ last'.arg.tag = "Inline"
C4_ReturnsTypesLength ==
    [][InlinePushSignature => last'.ret = <<Len(module.types)>>]_vars

(***************************************************************************)
(* C4, amended.  A push_signature call with an Inline signature returns    *)
(* the functions-slot length just before the call; when the call before it *)
(* was a push_signature with an Inline signature too, it returns that      *)
(* call's index plus 1; and the types slot grows by exactly one entry per  *)
(* call.                                                                    *)
(***************************************************************************)
C4_InlineSignatureIndices ==
    [][InlinePushSignature =>
        /\ last'.ret = <<Len(module.functions)>>
        /\ Len(module'.types) = Len(module.types) + 1
        /\ (last.op = "push_signature" /\ last.arg.tag = "Inline") =>
               last'.ret[1] = last.ret[1] + 1]_vars
\* Two push_signature calls with Inline signatures in a row.
C4_Witness ==
    /\ last.op = "push_signature"
    /\ last.arg.tag = "Inline"
    /\ prevSig # NoRet
    /\ last.ret[1] = prevSig[1] + 1
    /\ Len(module.types) = 2

(***************************************************************************)
(* C5.  push_function grows the functions slot by exactly 1 and the code   *)
(* slot by exactly 1, and returns a CodeLocation whose signature is the    *)
(* functions-slot length before the call and whose body is the code-slot   *)
(* length before the call; the appended body is the definition's body and  *)
(* the appended function entry holds the type index resolved from the      *)
(* definition's signature.                                                  *)
(***************************************************************************)
\* The type index a signature resolves to on a types slot of this length.
ResolvedIndex(signature, ntypes) ==
    IF signature.tag = "Inline" THEN ntypes ELSE signature.type_ref
C5_PushFunction ==
    [][Called("push_function") =>
        /\ Len(module'.functions) = Len(module.functions) + 1
        /\ Len(module'.code) = Len(module.code) + 1
        /\ last'.ret = <<[signature |-> Len(module.functions),
                          body |-> Len(module.code)]>>
        /\ module'.code = Append(module.code, last'.arg.code)
        /\ module'.functions =
              Append(module.functions,
                     Func(ResolvedIndex(last'.arg.signature, Len(module.types))))]_vars
\* A push_function with an Inline signature whose two returned indices
\* differ.
C5_Witness ==
    /\ last.op = "push_function"
    /\ last.arg.signature.tag = "Inline"
    /\ last.ret[1].signature > last.ret[1].body
    /\ module.code[Len(module.code)] = "body2"

(***************************************************************************)
(* C6.  On a builder started empty and never given a module, the           *)
(* functions-slot length minus the code-slot length is the number of       *)
(* signatures added by push_signature, push_signatures and with_signatures *)
(* (never negative), and a CodeLocation returned by push_function has       *)
(* signature - body equal to that number; with no such signature added,    *)
(* signature = body.                                                        *)
(***************************************************************************)
C6_SlotDifference ==
    ~seeded =>
        /\ nsigs >= 0
        /\ Len(module.functions) - Len(module.code) = nsigs
        /\ last.op = "push_function" =>
              /\ last.ret[1].signature - last.ret[1].body = nsigs
              /\ nsigs = 0 => last.ret[1].signature = last.ret[1].body
\* A push_function after stand-alone signatures, and one without any.
C6_Witness ==
    /\ ~seeded
    /\ last.op = "push_function"
    /\ nsigs = 2
    /\ last.ret[1].signature - last.ret[1].body = 2

(***************************************************************************)
(* Signature lists: the operations that take one signature, and those that *)
(* take a SignatureBindings list.                                           *)
(***************************************************************************)
IsInline(signature) == signature.tag = "Inline"
InlineCount(signatures) == Len(SelectSeq(signatures, IsInline))
\* The signatures the step resolves, in order: those of the list, or the one.
Resolved ==
    CASE Called("push_signatures") \/ Called("with_signatures") -> last'.arg
      [] Called("push_signature") -> <<last'.arg>>
      [] Called("push_function") -> <<last'.arg.signature>>
      [] OTHER -> <<>>
\* The type index the k-th resolved signature gets when it is Inline.
InlineIndex(k) == Len(module.types) + InlineCount(SubSeq(Resolved, 1, k - 1))

(***************************************************************************)
(* C7.  Resolving an Inline(func_type) signature (push_signature,          *)
(* push_signatures, with_signatures, push_function) appends func_type as   *)
(* the new last entry of the types slot, and the function entry appended   *)
(* for it holds that new last index; nothing is deduplicated, so identical *)
(* Inline signatures get distinct type entries and function entries with   *)
(* different type indices.                                                  *)
(***************************************************************************)
C7_InlineAppendsType ==
    [][Resolved # <<>> =>
        /\ Len(module'.types) = Len(module.types) + InlineCount(Resolved)
        /\ SubSeq(module'.types, 1, Len(module.types)) = module.types
        /\ \A k \in 1..Len(Resolved) :
              IsInline(Resolved[k]) =>
                /\ module'.types[InlineIndex(k) + 1] = TypeFunction(Resolved[k].func_type)
                /\ module'.functions[Len(module.functions) + k] = Func(InlineIndex(k))
                /\ \A j \in 1..(k - 1) :
                      IsInline(Resolved[j]) =>
                         module'.functions[Len(module.functions) + j]
                           # module'.functions[Len(module.functions) + k]]_vars
\* The same Inline signature twice in one list.
C7_Witness ==
    /\ last.op = "push_signatures"
    /\ last.arg = <<Inline("ft1"), Inline("ft1")>>
    /\ module.types = <<TypeFunction("ft1"), TypeFunction("ft1")>>
    /\ module.functions = <<Func(0), Func(1)>>

(***************************************************************************)
(* C8.  Pushing a TypeReference(i) signature, for any i and also an i      *)
(* outside the types slot, appends a function entry holding exactly i and  *)
(* adds no type: a call resolving only TypeReference signatures leaves the *)
(* types slot as it was.                                                    *)
(***************************************************************************)
C8_TypeReferenceKept ==
    [][/\ \A k \in 1..Len(Resolved) :
             ~IsInline(Resolved[k]) =>
                module'.functions[Len(module.functions) + k] = Func(Resolved[k].type_ref)
       /\ (Resolved # <<>> /\ InlineCount(Resolved) = 0) =>
             /\ module'.types = module.types
             /\ Len(module'.functions) = Len(module.functions) + Len(Resolved)]_vars
\* A reference to a type index outside a non-empty types slot was pushed.
C8_Witness ==
    /\ last.op = "push_signature"
    /\ last.arg = TypeReference(1000000)
    /\ Len(module.types) = 1
    /\ module.functions[Len(module.functions)] = Func(1000000)

(***************************************************************************)
(* C9.  push_signatures returns one function index per input signature, in *)
(* input order and consecutive from the functions-slot length before the   *)
(* call, and its scaffold and indices are those of calling push_signature  *)
(* once per signature, in the same order, from the same state.             *)
(***************************************************************************)
RECURSIVE one_by_one(_, _, _)
one_by_one(s, signatures, indices) ==
    IF signatures = <<>> THEN [module |-> s, ret |-> indices]
    ELSE LET r == push_signature(s, Head(signatures))
         IN  one_by_one(r.module, Tail(signatures), Append(indices, r.ret))
C9_PushSignaturesOneByOne ==
    [][Called("push_signatures") =>
        /\ Len(last'.ret) = Len(last'.arg)
        /\ \A k \in 1..Len(last'.ret) : last'.ret[k] = Len(module.functions) + k - 1
        /\ module' = one_by_one(module, last'.arg, <<>>).module
        /\ last'.ret = one_by_one(module, last'.arg, <<>>).ret]_vars
\* A list mixing a TypeReference and an Inline signature, pushed on a
\* builder that already holds a function.
C9_Witness ==
    /\ last.op = "push_signatures"
    /\ last.arg = <<TypeReference(0), Inline("ft2")>>
    /\ last.ret = <<1, 2>>

(***************************************************************************)
(* C10.  build emits the Type section, then the Function section, then the *)
(* Import section, then every section of `other` in its stored order; a    *)
(* tracked section is emitted if and only if its slot has an entry; and    *)
(* with_section / with_sections append to `other`, so their sections come  *)
(* after the tracked ones, in call order and in list order.                *)
(***************************************************************************)
Slot(kind) ==
    CASE kind = "Type" -> module.types
      [] kind = "Function" -> module.functions
      [] kind = "Import" -> module.import
Rank(kind) ==
    CASE kind = "Type" -> 1
      [] kind = "Function" -> 2
      [] kind = "Import" -> 3
C10_Reassembled ==
    pc = "finalized" =>
        LET k == Len(built) - Len(module.other)
        IN  /\ k >= 0
            /\ SubSeq(built, k + 1, Len(built)) = module.other
            /\ \A i \in 1..k :
                  /\ built[i].kind \in RoundTripKinds
                  /\ built[i].entries = Slot(built[i].kind)
                  /\ \A j \in 1..(i - 1) : Rank(built[j].kind) < Rank(built[i].kind)
            /\ \A kind \in RoundTripKinds :
                  Slot(kind) # <<>> <=> \E i \in 1..k : built[i].kind = kind
C10_SectionsAppended ==
    /\ Called("with_section") => module'.other = Append(module.other, last'.arg)
    /\ Called("with_sections") => module'.other = module.other \o last'.arg
C10_BuildOrder == []C10_Reassembled /\ [][C10_SectionsAppended]_vars
\* A module with all three tracked sections followed by a raw section was
\* built.
C10_Witness ==
    /\ pc = "finalized"
    /\ Len(built) = 4
    /\ built[4] = Section("Export", <<"e1">>)
    /\ last.op = "with_section"
    /\ \A kind \in RoundTripKinds : Slot(kind) # <<>>

(***************************************************************************)
(* C11.  with_module(m) replaces the whole scaffold and merges nothing:    *)
(* whatever the builder held, after the call every slot holds what         *)
(* decomposing m alone gives (the entries of m's section of that kind, or  *)
(* nothing), so what was accumulated before is gone unless m holds it too; *)
(* the builder stays usable.                                                *)
(***************************************************************************)
\* What decomposing m alone gives: the scaffold of from_module(m).
Decomposed(m) == with_module(DefaultScaffold, m)
C11_WithModuleReplaces ==
    [][Called("with_module") =>
        /\ module' = Decomposed(last'.arg)
        /\ \A kind \in TrackedKinds :
              OfKind(last'.arg, kind) = <<>> =>
                 /\ kind = "Type" => module'.types = <<>>
                 /\ kind = "Function" => module'.functions = <<>>
                 /\ kind = "Import" => module'.import = <<>>
                 /\ kind = "Code" => module'.code = <<>>
        /\ pc' = "accumulating"]_vars
\* with_module with an empty module, right after a push_signature with an
\* Inline signature had filled the types and functions slots.
C11_Witness ==
    /\ last.op = "with_module"
    /\ last.arg = <<>>
    /\ prevSig # NoRet
    /\ module = DefaultScaffold

(***************************************************************************)
(* C12.  When the decomposed module holds several sections of one tracked  *)
(* kind, the slot of that kind holds exactly one of them: the one the      *)
(* classification loop sees last, which is the one that comes first in the *)
(* module's section order, since the loop runs from the end of the list to *)
(* its start; the others are dropped.  With no section of a kind, the slot *)
(* is empty.                                                                *)
(***************************************************************************)
\* The entries of the first section of a kind, or none.
FirstOfKind(m, kind) ==
    IF OfKind(m, kind) = <<>> THEN <<>> ELSE OfKind(m, kind)[1].entries
C12_FirstSectionWins ==
    JustSeeded =>
        /\ module.types = FirstOfKind(last.arg, "Type")
        /\ module.functions = FirstOfKind(last.arg, "Function")
        /\ module.import = FirstOfKind(last.arg, "Import")
        /\ module.code = FirstOfKind(last.arg, "Code")
\* A module with two different Type sections and no Code section was
\* decomposed.
C12_Witness ==
    /\ last.op = "from_module"
    /\ Len(OfKind(last.arg, "Type")) = 2
    /\ OfKind(last.arg, "Type")[1] # OfKind(last.arg, "Type")[2]
    /\ module.types = OfKind(last.arg, "Type")[1].entries
    /\ OfKind(last.arg, "Code") = <<>>
    /\ module.code = <<>>

(***************************************************************************)
(* C15.  A builder created by module() on which no operation was applied   *)
(* builds to a module with zero sections.                                   *)
(***************************************************************************)
C15_EmptyBuilderBuildsEmpty ==
    (pc = "finalized" /\ last.op = "module") => Len(built) = 0
\* module().build() was run.
C15_Witness ==
    /\ pc = "finalized"
    /\ last.op = "module"
    /\ module = DefaultScaffold
    /\ built = <<>>

(***************************************************************************)
(* C16.  Each operation changes only its own slots: with_section and       *)
(* with_sections only `other`; with_import only the imports slot, by one   *)
(* entry appended at the end; push_signature, push_signatures and          *)
(* with_signatures only the functions slot and, when a signature is        *)
(* Inline, the types slot; push_function only the functions and code slots *)
(* and, for an Inline signature, the types slot.  Only push_function and   *)
(* with_module change the code slot.                                        *)
(***************************************************************************)
Same(field) ==
    CASE field = "functions" -> module'.functions = module.functions
      [] field = "types" -> module'.types = module.types
      [] field = "import" -> module'.import = module.import
      [] field = "code" -> module'.code = module.code
      [] field = "other" -> module'.other = module.other
SameAll(fields) == \A field \in fields : Same(field)
C16_Frame ==
    [][/\ (Called("with_section") \/ Called("with_sections")) =>
             SameAll({"functions", "types", "import", "code"})
       /\ Called("with_import") =>
             /\ SameAll({"functions", "types", "code", "other"})
             /\ module'.import = Append(module.import, last'.arg)
       /\ (Called("push_signature") \/ Called("push_signatures")
              \/ Called("with_signatures")) =>
             /\ SameAll({"import", "code", "other"})
             /\ InlineCount(Resolved) = 0 => Same("types")
       /\ Called("push_function") =>
             /\ SameAll({"import", "other"})
             /\ InlineCount(Resolved) = 0 => Same("types")
       /\ (pc' = "accumulating"
              /\ ~Called("push_function") /\ ~Called("with_module")) => Same("code")]_vars
\* The second with_import on a builder that holds a function and a body.
C16_Witness ==
    /\ last.op = "with_import"
    /\ module.import = <<"imp2", "imp1">>
    /\ module.functions # <<>>
    /\ module.code # <<>>

(***************************************************************************)
(* C17.  Issued indices stay valid under the append-only operations: every *)
(* operation except with_module leaves each slot's existing entries where  *)
(* they are and only appends at the end, and the index an operation        *)
(* returns is the position of the entry it appended; so the function entry *)
(* at a returned function index, the body at a returned body index and     *)
(* every type entry stay in place as long as with_module is not called.    *)
(***************************************************************************)
IsPrefix(a, b) == Len(a) <= Len(b) /\ SubSeq(b, 1, Len(a)) = a
C17_AppendOnly ==
    [][/\ (pc' = "accumulating" /\ ~Called("with_module")) =>
             /\ IsPrefix(module.functions, module'.functions)
             /\ IsPrefix(module.types, module'.types)
             /\ IsPrefix(module.import, module'.import)
             /\ IsPrefix(module.code, module'.code)
             /\ IsPrefix(module.other, module'.other)
       /\ Called("push_signature") =>
             module'.functions[last'.ret[1] + 1]
               = Func(ResolvedIndex(last'.arg, Len(module.types)))
       /\ Called("push_function") =>
             /\ module'.functions[last'.ret[1].signature + 1]
                   = Func(ResolvedIndex(last'.arg.signature, Len(module.types)))
             /\ module'.code[last'.ret[1].body + 1] = last'.arg.code
       /\ Called("push_signatures") =>
             \A k \in 1..Len(last'.ret) :
                module'.functions[last'.ret[k] + 1]
                  = Func(IF IsInline(last'.arg[k]) THEN InlineIndex(k)
                         ELSE last'.arg[k].type_ref)]_vars
\* Function index 0 was issued by push_signature for an Inline signature,
\* then a push_function appended after it: entry 0 is still the same.
C17_Witness ==
    /\ last.op = "push_function"
    /\ prevSig = <<0>>
    /\ module.functions[1] = Func(0)
    /\ Len(module.functions) = 2
    /\ Len(module.code) = 1

(***************************************************************************)
(* C19.  The module build returns holds at most one Function section, at   *)
(* most one Type section and at most one Import section, the raw sections  *)
(* given to with_section / with_sections being of untracked kinds, also    *)
(* when the builder was invoked with a finished FunctionsSection, a        *)
(* SignatureBindings list or an ImportEntry.                                *)
(* The code does not: Invoke<FunctionsSection> stores the section in       *)
(* `other`, so it is emitted next to the Function section of the functions *)
(* slot, and once per invocation.                                           *)
(***************************************************************************)
C19_OneSectionPerKind ==
    pc = "finalized" =>
        \A kind \in RoundTripKinds : Len(OfKind(built, kind)) <= 1

(***************************************************************************)
(* C13.  For a seed module with at most one Type and one Function section: *)
(* from_module, then one function appended with an Inline signature        *)
(* (push_function or push_signature), then build, gives a module whose     *)
(* Type section has one entry more than the seed's and whose Function      *)
(* section has one entry more than the seed's, an absent section counting  *)
(* as length 0.                                                             *)
(***************************************************************************)
\* The built module has exactly one section of the kind, with n entries.
BuiltSectionLen(kind, n) ==
    /\ Len(OfKind(built, kind)) = 1
    /\ Len(OfKind(built, kind)[1].entries) = n
SeededThenOneInline ==
    /\ pc = "finalized"
    /\ seed # None
    /\ nops = 1
    /\ last.op \in {"push_function", "push_signature"}
    /\ IsInline(SignaturesOf(last)[1])
C13_SeedPlusOne ==
    (SeededThenOneInline /\ seed[1].single) =>
        /\ BuiltSectionLen("Type", seed[1].types + 1)
        /\ BuiltSectionLen("Function", seed[1].functions + 1)
\* A seed with a Type section and a Function section, extended by one
\* push_signature and built.
C13_Witness ==
    /\ SeededThenOneInline
    /\ seed[1] = [types |-> 1, functions |-> 1, single |-> TRUE]
    /\ last.op = "push_signature"
    /\ BuiltSectionLen("Type", 2)
    /\ BuiltSectionLen("Function", 2)

(***************************************************************************)
(* C14.  Binding k >= 1 Inline signatures on an empty builder through the  *)
(* signatures sub-builder (whose bind invokes the builder with the         *)
(* SignatureBindings, which is with_signatures) and then building gives a  *)
(* module with a Type section of exactly k entries, a Function section of  *)
(* exactly k entries, and no Code section entry (the module has those two   *)
(* sections and no other).                                                  *)
(***************************************************************************)
BoundOnEmptyBuilder ==
    /\ pc = "finalized"
    /\ ~seeded
    /\ nops = 1
    /\ last.op = "with_signatures"
    /\ Len(last.arg) >= 1
    /\ InlineCount(last.arg) = Len(last.arg)
C14_BoundSignatures ==
    BoundOnEmptyBuilder =>
        /\ BuiltSectionLen("Type", Len(last.arg))
        /\ BuiltSectionLen("Function", Len(last.arg))
        /\ \A i \in 1..Len(built) : built[i].kind = "Code" => built[i].entries = <<>>
        /\ Len(built) = 2
\* Two Inline signatures were bound on module() and the builder built.
C14_Witness ==
    /\ BoundOnEmptyBuilder
    /\ last.arg = <<Inline("ft2"), Inline("ft2")>>
    /\ built = <<Section("Type", <<TypeFunction("ft2"), TypeFunction("ft2")>>),
                 Section("Function", <<Func(0), Func(1)>>)>>

(***************************************************************************)
(* C18.  On a builder started empty and never given a module, while every  *)
(* signature resolved was Inline, the functions slot and the types slot    *)
(* have the same length, the i-th function entry (counting from 0) holds   *)
(* type index i, and so every function entry holds a type index below the  *)
(* types-slot length.                                                       *)
(***************************************************************************)
C18_InlineOnlyAligned ==
    (~seeded /\ inlineOnly) =>
        /\ Len(module.functions) = Len(module.types)
        /\ \A i \in 1..Len(module.functions) :
              /\ module.functions[i] = Func(i - 1)
              /\ module.functions[i].type_ref < Len(module.types)
\* A batch of two Inline signatures was pushed on a builder that has only
\* ever resolved Inline signatures.
C18_Witness ==
    /\ ~seeded
    /\ inlineOnly
    /\ last.op = "push_signatures"
    /\ Len(last.arg) = 2
    /\ module.functions = <<Func(0), Func(1)>>
    /\ module.types = <<TypeFunction("ft1"), TypeFunction("ft1")>>

====
